---- MODULE Spec2Model ----
(***************************************************************************)
(* A model of lfs/upload_queue.go of git-lfs: the Uploadable (the upload   *)
(* variant of a Transferable), its constructor NewUploadable with the      *)
(* reconciliation step ensureFile, and Uploadable.Transfer with its        *)
(* progress wrapper.  The collaborators that upload_queue.go only calls    *)
(* (LocalMediaPath, PointerClean, api.UploadCheck, api.UploadObject,       *)
(* progress.CallbackReader, the TransferQueue) are modelled from the       *)
(* specification and by nondeterministic outcomes.                         *)
(***************************************************************************)
EXTENDS Integers, Sequences, FiniteSets, TLC

VARIABLES
    worktree,     \* working copy: path -> content of the files that exist
    media,        \* the CAS (local media directory): path -> content
    staging,      \* live staging resources (temporary files of clean)
    uploadables,  \* the Uploadables constructed so far
    lastNew,      \* record of the most recent NewUploadable call
    authorized,   \* per Uploadable: has a Check returned an ObjectResource
    xfer,         \* per Uploadable: the state of its Transfer call
    q             \* the TransferQueue built by NewUploadQueue

vars == <<worktree, media, staging, uploadables, lastNew, authorized, xfer, q>>

(***************************************************************************)
(* Bounds.                                                                 *)
(***************************************************************************)
MaxLen == 2       \* longest file content, in bytes
MaxBatch == 2     \* most Transferables added to one queue
MaxWorkers == 2   \* size of the queue's worker pool

(***************************************************************************)
(* Contents, identifiers and paths.                                        *)
(***************************************************************************)
Bytes == {0, 1}

Contents == UNION {[1..n -> Bytes] : n \in 1..MaxLen}

\* The digest of a content as a number: injective on Contents, as a
\* cryptographic hash is in practice.
RECURSIVE Digest(_)
Digest(c) ==
    IF c = <<>> THEN 1 ELSE 2 * Digest(SubSeq(c, 1, Len(c) - 1)) + c[Len(c)]

\* The OID of a content: its digest, hex-encoded on two digits.
ContentOid(c) == <<Digest(c) \div 16, Digest(c) % 16>>

Oids == {ContentOid(c) : c \in Contents}

LocalMediaDir == <<"lfs", "objects">>

\* LocalMediaPath(oid): the CAS location of oid, sharded by the first digit.
LocalMediaPath(oid) == LocalMediaDir \o <<oid[1], oid>>

\* filepath.Base, filepath.Dir and filepath.Join on paths as component lists.
Base(path) == path[Len(path)]

Dir(path) == SubSeq(path, 1, Len(path) - 1)

Join(dir, rel) == dir \o rel

LocalWorkingDir == <<"work">>

\* The file names a caller passes: none (a raw object push) or a tracked file.
Filenames == {<<>>, <<"a.bin">>}

(***************************************************************************)
(* Errors and nil values.                                                  *)
(***************************************************************************)
NoErr == [kind |-> "nil"]

NilObject == [nil |-> TRUE]

NilUploadable == [nil |-> TRUE]

NilAsset == [nil |-> TRUE]

\* errutil.Errorf(err, "Error uploading file %s (%s)", filename, oid)
UploadableErr(cause, filename, oid) ==
    [kind |-> "Errorf", cause |-> cause, filename |-> filename, oid |-> oid]

\* fmt.Errorf("Trying to push %q with OID %s.\nNot found in %s.", ...)
MismatchErr(smudgePath, expectedOid, dir) ==
    [kind |-> "IntegrityMismatch", smudgePath |-> smudgePath,
     expectedOid |-> expectedOid, dir |-> dir]

\* The outcomes of the environment during one NewUploadable call:
\* LocalMediaPath and file.Stat succeed or fail, clean succeeds, fails
\* returning a staging handle, or fails returning nothing.
IoOutcomes ==
    {[path |-> FALSE, fstat |-> TRUE, clean |-> "ok"],
     [path |-> TRUE, fstat |-> FALSE, clean |-> "ok"]}
    \cup [path : {TRUE}, fstat : {TRUE}, clean : {"ok", "fail", "failnil"}]

(***************************************************************************)
(* PointerClean, from the specification of clean: it stages the content in *)
(* a temporary file while hashing it; on success the content is finalized  *)
(* into the CAS at the location of its OID (a no-op when already there);   *)
(* on failure the asset carries the error and the handle.                  *)
(***************************************************************************)
PointerClean(content, outcome, m, stg) ==
    LET tmp == <<"tmp", Cardinality(stg) + 1>>
        oid == ContentOid(content)
        path == LocalMediaPath(oid)
    IN  CASE outcome = "ok" ->
               [cleaned |-> [nil |-> FALSE, Oid |-> oid, Size |-> Len(content),
                             tmp |-> tmp, err |-> NoErr],
                err |-> NoErr,
                media |-> IF path \in DOMAIN m THEN m ELSE (path :> content) @@ m,
                staging |-> stg \cup {tmp}]
          [] outcome = "fail" ->
               [cleaned |-> [nil |-> FALSE, Oid |-> <<>>, Size |-> 0, tmp |-> tmp,
                             err |-> [kind |-> "IOError", op |-> "clean"]],
                err |-> [kind |-> "IOError", op |-> "clean"],
                media |-> m,
                staging |-> stg \cup {tmp}]
          [] OTHER ->
               [cleaned |-> NilAsset,
                err |-> [kind |-> "IOError", op |-> "clean"],
                media |-> m,
                staging |-> stg]

(***************************************************************************)
(* ensureFile (reconcile).                                                 *)
(***************************************************************************)
\* os.Stat(cleanPath) succeeded: the CAS already holds the object.
AlreadyCleanInverted(cleanPath, m) == cleanPath \notin DOMAIN m

AlreadyClean(cleanPath, m) == cleanPath \in DOMAIN m

\* if cleaned != nil { cleaned.Teardown() }
TeardownOnSuccessOnly(cleaned, err, stg) ==
    IF cleaned.nil \/ err # NoErr THEN stg ELSE stg \ {cleaned.tmp}

Teardown(cleaned, err, stg) ==
    IF cleaned.nil THEN stg ELSE stg \ {cleaned.tmp}

\* if expectedOid != cleaned.Oid { return fmt.Errorf(...) }; return nil
CompareOidInverted(expectedOid, cleanedOid, smudgePath, cleanPath) ==
    IF expectedOid = cleanedOid
    THEN MismatchErr(smudgePath, expectedOid, Dir(cleanPath))
    ELSE NoErr

CompareOid(expectedOid, cleanedOid, smudgePath, cleanPath) ==
    IF expectedOid # cleanedOid
    THEN MismatchErr(smudgePath, expectedOid, Dir(cleanPath))
    ELSE NoErr

\* The result of ensureFile: its error, the calls it made in order, the asset
\* clean returned, and the CAS and the staging area when it returns.
EnsureRet(err, log, cleaned, m, stg) ==
    [err |-> err, log |-> log, cleaned |-> cleaned, media |-> m, staging |-> stg]

ensureFile(smudgePath, cleanPath, io) ==
    IF AlreadyClean(cleanPath, media)
    THEN EnsureRet(NoErr, <<"stat">>, NilAsset, media, staging)
    ELSE
    LET expectedOid == Base(cleanPath)
        localPath == Join(LocalWorkingDir, smudgePath)
    IN  IF localPath \notin DOMAIN worktree
        THEN EnsureRet([kind |-> "IOError", op |-> "open"],
                       <<"stat", "open">>, NilAsset, media, staging)
        ELSE IF ~io.fstat
        THEN EnsureRet([kind |-> "IOError", op |-> "fstat"],
                       <<"stat", "open", "fstat", "close">>, NilAsset, media, staging)
        ELSE
        LET c == PointerClean(worktree[localPath], io.clean, media, staging)
            stg == Teardown(c.cleaned, c.err, c.staging)
            log == <<"stat", "open", "fstat", "clean">>
                     \o (IF stg # c.staging THEN <<"teardown">> ELSE <<>>)
        IN  IF c.err # NoErr
            THEN EnsureRet(c.err, log \o <<"close">>, c.cleaned, c.media, stg)
            ELSE EnsureRet(CompareOid(expectedOid, c.cleaned.Oid, smudgePath, cleanPath),
                           log \o <<"compare", "close">>, c.cleaned, c.media, stg)

(***************************************************************************)
(* NewUploadable.                                                          *)
(***************************************************************************)
\* The result when ensureFile was not called.
NotReconciled == EnsureRet(NoErr, <<>>, NilAsset, media, staging)

\* if len(filename) > 0
NeedsEnsureAlways(filename) == TRUE

NeedsEnsure(filename) == Len(filename) > 0

\* fi, err := os.Stat(localMediaPath) ... return &Uploadable{...}, nil
StatMedia(oid, filename, localMediaPath, m) ==
    IF localMediaPath \in DOMAIN m
    THEN [ret |-> [nil |-> FALSE, oid |-> oid, OidPath |-> localMediaPath,
                   Filename |-> filename, size |-> Len(m[localMediaPath]),
                   object |-> NilObject],
          err |-> NoErr]
    ELSE [ret |-> NilUploadable, err |-> UploadableErr("stat", filename, oid)]

\* if err := ensureFile(...); err != nil { return nil, err }
EnsureGateDropsErr(e, oid, filename, localMediaPath) ==
    StatMedia(oid, filename, localMediaPath, e.media)

EnsureGate(e, oid, filename, localMediaPath) ==
    IF e.err # NoErr
    THEN [ret |-> NilUploadable, err |-> e.err]
    ELSE StatMedia(oid, filename, localMediaPath, e.media)

\* The whole of NewUploadable(oid, filename) under the outcomes io: what it
\* returns, what ensureFile did, and the CAS and staging area afterwards.
NewUploadableResult(oid, filename, io) ==
    IF ~io.path
    THEN [ret |-> NilUploadable,
          err |-> UploadableErr("LocalMediaPath", filename, oid),
          ensure |-> NotReconciled]
    ELSE
    LET localMediaPath == LocalMediaPath(oid)
        e == IF NeedsEnsure(filename)
             THEN ensureFile(filename, localMediaPath, io)
             ELSE NotReconciled
        r == EnsureGate(e, oid, filename, localMediaPath)
    IN  [ret |-> r.ret, err |-> r.err, ensure |-> e]

\* Before any call of NewUploadable.
NoCall ==
    [called |-> FALSE, oid |-> <<>>, filename |-> <<>>, pathOk |-> FALSE,
     had |-> FALSE,
     ensure |-> [err |-> NoErr, log |-> <<>>, cleaned |-> NilAsset],
     ret |-> NilUploadable, err |-> NoErr]

\* An Uploadable on which no Transfer has been called.
Idle ==
    [pc |-> "idle", obj |-> NilObject, path |-> <<>>, sent |-> <<>>,
     ReadSize |-> 0, TotalSize |-> 0, calls |-> <<>>, sinkErr |-> FALSE,
     uploadCalled |-> FALSE, result |-> "none"]

NewUploadableStep(oid, filename, io) ==
    LET r == NewUploadableResult(oid, filename, io)
    IN  /\ media' = r.ensure.media
        /\ staging' = r.ensure.staging
        /\ lastNew' = [called |-> TRUE, oid |-> oid, filename |-> filename,
                       pathOk |-> io.path,
                       had |-> LocalMediaPath(oid) \in DOMAIN media,
                       ensure |-> [err |-> r.ensure.err, log |-> r.ensure.log,
                                   cleaned |-> r.ensure.cleaned],
                       ret |-> r.ret, err |-> r.err]
        /\ uploadables' = IF r.ret.nil THEN uploadables
                          ELSE Append(uploadables, r.ret)
        /\ authorized' = IF r.ret.nil THEN authorized
                         ELSE Append(authorized, FALSE)
        /\ xfer' = IF r.ret.nil THEN xfer ELSE Append(xfer, Idle)
        /\ UNCHANGED <<worktree, q>>

\* One call of NewUploadable, on any OID and file name.
NewUploadableOnce ==
    /\ lastNew = NoCall
    /\ \E oid \in Oids, filename \in Filenames, io \in IoOutcomes :
           NewUploadableStep(oid, filename, io)

\* A caller follows one Uploadable from its construction: calls that fail may
\* be repeated, and the first that succeeds yields the Uploadable.
NewUploadable ==
    /\ uploadables = <<>>
    /\ \E oid \in Oids, filename \in Filenames, io \in IoOutcomes :
           NewUploadableStep(oid, filename, io)

(***************************************************************************)
(* Check, SetObject and the accessors.                                     *)
(***************************************************************************)
\* api.UploadCheck(oidPath): the server grants an ObjectResource for the
\* object named by the path, or answers that it already has the object
\* (nil, nil), or the call fails.
UploadCheck(oidPath, resp, m) ==
    CASE resp = "grant" /\ oidPath \in DOMAIN m ->
           [obj |-> [nil |-> FALSE, Oid |-> Base(oidPath), Size |-> Len(m[oidPath])],
            err |-> NoErr]
      [] resp = "exists" /\ oidPath \in DOMAIN m ->
           [obj |-> NilObject, err |-> NoErr]
      [] OTHER ->
           [obj |-> NilObject, err |-> [kind |-> "ApiError", op |-> "check"]]

CheckResponses == {"grant", "exists", "error"}

\* func (u *Uploadable) Check(): it returns what api.UploadCheck returns
\* and stores nothing in the Uploadable.
Check(i, resp) ==
    /\ i \in DOMAIN uploadables
    /\ xfer[i].pc = "idle"
    /\ LET c == UploadCheck(uploadables[i].OidPath, resp, media)
       IN  authorized' = [authorized EXCEPT ![i] = @ \/ ~c.obj.nil]
    /\ UNCHANGED <<worktree, media, staging, uploadables, lastNew, xfer, q>>

\* The ObjectResources a server may assert to the holder of u: for the OID
\* of u or for another object's, with the size it has on record.
ObjectResources(u) ==
    [nil : {FALSE}, Oid : {u.oid} \cup {ContentOid(<<b>>) : b \in Bytes},
     Size : 1..MaxLen]

\* u.object = o
SetObjectNoop(u, o) == u

SetObjectOf(u, o) == [u EXCEPT !.object = o]

SetObject(i, o) ==
    /\ i \in DOMAIN uploadables
    /\ xfer[i].pc = "idle"
    /\ uploadables' = [uploadables EXCEPT ![i] = SetObjectOf(@, o)]
    /\ UNCHANGED <<worktree, media, staging, lastNew, authorized, xfer, q>>

\* The accessors Object(), Oid(), Size() and Name().
Object(u) == u.object

Oid(u) == u.oid

Size(u) == u.size

Name(u) == u.Filename

(***************************************************************************)
(* Transfer.                                                               *)
(***************************************************************************)
\* wcb: the wrapper Transfer hands to the reader.  It calls the sink cb with
\* its own arguments, drops what the sink answers and returns nil.
wcbSwapped(total, read, current, sinkRet) ==
    [call |-> <<read, total, current>>, ret |-> NoErr]

wcbPropagating(total, read, current, sinkRet) ==
    [call |-> <<total, read, current>>, ret |-> sinkRet]

wcb(total, read, current, sinkRet) ==
    [call |-> <<total, read, current>>, ret |-> NoErr]

\* What a progress sink may answer.
SinkAnswers == {NoErr, [kind |-> "SinkError"]}

\* path, err := LocalMediaPath(u.object.Oid)
TransferPathOwnOid(u) == u.OidPath

TransferPath(u) == LocalMediaPath(u.object.Oid)

\* TotalSize: u.object.Size
ReaderTotal(u) == u.object.Size

Done(x, result) == [x EXCEPT !.pc = "done", !.result = result]

\* Transfer up to the call of api.UploadObject: a nil object panics on
\* u.object.Oid; path resolution or os.Open may fail; otherwise the reader
\* is built and handed to api.UploadObject.
TransferBeginResult(u, pathOk, m) ==
    IF u.object.nil THEN Done(Idle, "panic")
    ELSE IF ~pathOk THEN Done([Idle EXCEPT !.obj = u.object], "PathErr")
    ELSE IF TransferPath(u) \notin DOMAIN m
    THEN Done([Idle EXCEPT !.obj = u.object, !.path = TransferPath(u)], "OpenErr")
    ELSE [Idle EXCEPT !.pc = "uploading", !.obj = u.object,
                      !.path = TransferPath(u), !.TotalSize = ReaderTotal(u),
                      !.uploadCalled = TRUE]

TransferBegin(i, pathOk) ==
    /\ i \in DOMAIN uploadables
    /\ xfer[i].pc = "idle"
    /\ xfer' = [xfer EXCEPT ![i] = TransferBeginResult(uploadables[i], pathOk, media)]
    /\ UNCHANGED <<worktree, media, staging, uploadables, lastNew, authorized, q>>

\* progress.CallbackReader.Read: reads a chunk of n bytes from the file,
\* adds n to ReadSize, calls C(TotalSize, ReadSize, n) and returns what C
\* returns; an error from C ends the upload with that error.
CallbackReaderRead(x, n, sinkRet, m) ==
    LET file == m[x.path]
        off == Len(x.sent)
        w == wcb(x.TotalSize, x.ReadSize + n, n, sinkRet)
        y == [x EXCEPT !.sent = @ \o SubSeq(file, off + 1, off + n),
                       !.ReadSize = @ + n,
                       !.calls = Append(@, w.call),
                       !.sinkErr = @ \/ sinkRet # NoErr]
    IN  IF w.ret # NoErr THEN Done(y, "ReadErr") ELSE y

TransferRead(i) ==
    /\ i \in DOMAIN uploadables
    /\ xfer[i].pc = "uploading"
    /\ \E n \in 1..(Len(media[xfer[i].path]) - Len(xfer[i].sent)),
          sinkRet \in SinkAnswers :
           xfer' = [xfer EXCEPT ![i] = CallbackReaderRead(@, n, sinkRet, media)]
    /\ UNCHANGED <<worktree, media, staging, uploadables, lastNew, authorized, q>>

\* api.UploadObject returns: nil, or a transport error, after any number of
\* chunks (the server may answer before the body is read to its end).
UploadOutcomes == {"ok", "UploadErr"}

TransferEnd(i) ==
    /\ i \in DOMAIN uploadables
    /\ xfer[i].pc = "uploading"
    /\ \E outcome \in UploadOutcomes :
           xfer' = [xfer EXCEPT ![i] = Done(@, outcome)]
    /\ UNCHANGED <<worktree, media, staging, uploadables, lastNew, authorized, q>>

\* Transfer returns its result to the caller: the call is over.
TransferReturn(i) ==
    /\ i \in DOMAIN uploadables
    /\ xfer[i].pc = "done"
    /\ xfer' = [xfer EXCEPT ![i] = Idle]
    /\ UNCHANGED <<worktree, media, staging, uploadables, lastNew, authorized, q>>

(***************************************************************************)
(* The constructor alone: NewUploadable called on any working copy and any *)
(* CAS.                                                                    *)
(***************************************************************************)
\* A CAS holding at most one object, a working copy holding at most one file.
Stores == {<<>>} \cup {LocalMediaPath(ContentOid(c)) :> c : c \in Contents}

Worktrees == {<<>>} \cup {Join(LocalWorkingDir, <<"a.bin">>) :> c : c \in Contents}

NoQueue == [phase |-> "none"]

Init ==
    /\ worktree \in Worktrees
    /\ media \in Stores
    /\ staging = {}
    /\ uploadables = <<>>
    /\ lastNew = NoCall
    /\ authorized = <<>>
    /\ xfer = <<>>
    /\ q = NoQueue

Next == NewUploadableOnce

Spec == Init /\ [][Next]_vars

(***************************************************************************)
(* The Uploadable driven by an arbitrary caller, one call after the other, *)
(* in a repository whose working file, if any, is the stored object, or in *)
(* one that has no working file and stores the objects to push.            *)
(***************************************************************************)
\* The objects in the store when a push starts.
PushContents == {<<0>>, <<0, 1>>}

PushStore ==
    [p \in {LocalMediaPath(ContentOid(c)) : c \in PushContents} |->
        CHOOSE c \in PushContents : LocalMediaPath(ContentOid(c)) = p]

ApiInit ==
    /\ worktree \in Worktrees
    /\ media \in Stores \cup {PushStore}
    /\ staging = {}
    /\ uploadables = <<>>
    /\ lastNew = NoCall
    /\ authorized = <<>>
    /\ xfer = <<>>
    /\ q = NoQueue
    /\ \/ worktree = <<>>
       \/ media = <<>>
       \/ \E c \in Contents :
             /\ worktree = Join(LocalWorkingDir, <<"a.bin">>) :> c
             /\ media = LocalMediaPath(ContentOid(c)) :> c

ApiNext ==
    \/ NewUploadable
    \/ \E i \in DOMAIN uploadables, resp \in CheckResponses : Check(i, resp)
    \/ \E i \in DOMAIN uploadables :
         \E o \in ObjectResources(uploadables[i]) \cup {NilObject} : SetObject(i, o)
    \/ \E i \in DOMAIN uploadables, pathOk \in BOOLEAN : TransferBegin(i, pathOk)
    \/ \E i \in DOMAIN uploadables : TransferRead(i)
    \/ \E i \in DOMAIN uploadables : TransferEnd(i)
    \/ \E i \in DOMAIN uploadables : TransferReturn(i)

ApiSpec == ApiInit /\ [][ApiNext]_vars

(***************************************************************************)
(* The upload queue: NewUploadQueue and the TransferQueue it builds, which *)
(* collects Transferables, authorizes them in one batch call, then runs    *)
(* the authorized ones on a pool of workers.                               *)
(***************************************************************************)
\* q := newTransferQueue(files, size, dryRun); q.transferKind = "upload"
NewUploadQueue(dryRun) ==
    [phase |-> "Collecting", transferKind |-> "upload", dryRun |-> dryRun,
     batch |-> <<>>, pending |-> <<>>, inflight |-> {},
     outcome |-> <<>>, err |-> NoErr]

\* The Uploadables NewUploadable returns for the raw objects of oids.
Built(oids) ==
    [i \in DOMAIN oids |->
        NewUploadableResult(oids[i], <<>>,
                            [path |-> TRUE, fstat |-> TRUE, clean |-> "ok"]).ret]

QueueInit ==
    /\ worktree = <<>>
    /\ media = PushStore
    /\ staging = {}
    /\ lastNew = NoCall
    /\ \E n \in 1..MaxBatch :
         \E oids \in [1..n -> {ContentOid(c) : c \in PushContents}] :
            /\ uploadables = Built(oids)
            /\ authorized = [i \in 1..n |-> FALSE]
            /\ xfer = [i \in 1..n |-> Idle]
    /\ q \in {NewUploadQueue(d) : d \in BOOLEAN}

\* q.Add(t), while the queue collects.
Add(i) ==
    /\ q.phase = "Collecting"
    /\ i \in DOMAIN uploadables
    /\ \A k \in DOMAIN q.batch : q.batch[k] # i
    /\ q' = [q EXCEPT !.batch = Append(@, i), !.outcome = Append(@, "none")]
    /\ UNCHANGED <<worktree, media, staging, uploadables, lastNew, authorized, xfer>>

\* q.Wait(): the batch is closed and the single authorization call is made.
BeginAuthorize ==
    /\ q.phase = "Collecting"
    /\ q.batch # <<>>
    /\ q' = [q EXCEPT !.phase = "Authorizing"]
    /\ UNCHANGED <<worktree, media, staging, uploadables, lastNew, authorized, xfer>>

\* The positions of the batch whose answer is rs[k] = r, in batch order.
RECURSIVE Granted(_, _)
Granted(batch, rs) ==
    IF batch = <<>> THEN <<>>
    ELSE LET rest == Granted(Tail(batch), Tail(rs))
         IN  IF Head(rs) = "grant" THEN <<Head(batch)>> \o rest ELSE rest

\* The batch call fails as a whole: the batch is over.
AuthorizeFails ==
    /\ q.phase = "Authorizing"
    /\ q' = [q EXCEPT !.phase = "Done",
                      !.err = [kind |-> "AuthorizationError"]]
    /\ UNCHANGED <<worktree, media, staging, uploadables, lastNew, authorized, xfer>>

\* The batch call answers for every object: a granted object is stored in
\* its Transferable with SetObject and queued for the workers; an object the
\* server already has is done; an object-level error fails that object.  A
\* dry run ends here.
AuthorizeReplies ==
    /\ q.phase = "Authorizing"
    /\ \E rs \in [DOMAIN q.batch -> CheckResponses] :
         LET chk(k) == UploadCheck(uploadables[q.batch[k]].OidPath, rs[k], media)
             pos(i) == CHOOSE k \in DOMAIN q.batch : q.batch[k] = i
             inBatch(i) == \E k \in DOMAIN q.batch : q.batch[k] = i
             granted(i) == inBatch(i) /\ rs[pos(i)] = "grant"
         IN  /\ uploadables' =
                  [i \in DOMAIN uploadables |->
                     IF granted(i)
                     THEN SetObjectOf(uploadables[i], chk(pos(i)).obj)
                     ELSE uploadables[i]]
             /\ authorized' =
                  [i \in DOMAIN authorized |-> authorized[i] \/ granted(i)]
             /\ q' = [q EXCEPT
                        !.phase = IF q.dryRun THEN "Done" ELSE "Running",
                        !.pending = IF q.dryRun THEN <<>> ELSE Granted(q.batch, rs),
                        !.outcome = [k \in DOMAIN q.batch |->
                                       CASE rs[k] = "exists" -> "succeeded"
                                         [] rs[k] = "error" -> "failed"
                                         [] OTHER -> IF q.dryRun THEN "skipped"
                                                     ELSE "none"]]
    /\ UNCHANGED <<worktree, media, staging, lastNew, xfer>>

\* A free worker takes the next Transferable and calls its Transfer.
Dispatch(pathOk) ==
    /\ q.phase = "Running"
    /\ q.pending # <<>>
    /\ Cardinality(q.inflight) < MaxWorkers
    /\ LET i == Head(q.pending)
       IN  /\ xfer' = [xfer EXCEPT
                         ![i] = TransferBeginResult(uploadables[i], pathOk, media)]
           /\ q' = [q EXCEPT !.pending = Tail(@), !.inflight = @ \cup {i}]
    /\ UNCHANGED <<worktree, media, staging, uploadables, lastNew, authorized>>

\* A worker's Transfer has returned: its outcome is recorded.
Complete(i) ==
    /\ i \in q.inflight
    /\ xfer[i].pc = "done"
    /\ LET k == CHOOSE k \in DOMAIN q.batch : q.batch[k] = i
       IN  q' = [q EXCEPT !.inflight = @ \ {i},
                         !.outcome[k] = IF xfer[i].result = "ok"
                                        THEN "succeeded" ELSE "failed"]
    /\ xfer' = [xfer EXCEPT ![i] = Idle]
    /\ UNCHANGED <<worktree, media, staging, uploadables, lastNew, authorized>>

\* The work queue is empty: the queue waits for the transfers in flight.
Drain ==
    /\ q.phase = "Running"
    /\ q.pending = <<>>
    /\ q' = [q EXCEPT !.phase = "Draining"]
    /\ UNCHANGED <<worktree, media, staging, uploadables, lastNew, authorized, xfer>>

Finish ==
    /\ q.phase = "Draining"
    /\ q.inflight = {}
    /\ q' = [q EXCEPT !.phase = "Done"]
    /\ UNCHANGED <<worktree, media, staging, uploadables, lastNew, authorized, xfer>>

QueueNext ==
    \/ \E i \in DOMAIN uploadables : Add(i)
    \/ BeginAuthorize
    \/ AuthorizeFails
    \/ AuthorizeReplies
    \/ \E pathOk \in BOOLEAN : Dispatch(pathOk)
    \/ \E i \in q.inflight : TransferRead(i)
    \/ \E i \in q.inflight : TransferEnd(i)
    \/ \E i \in DOMAIN uploadables : Complete(i)
    \/ Drain
    \/ Finish

QueueSpec == QueueInit /\ [][QueueNext]_vars

(***************************************************************************)
(* Properties of ensureFile and NewUploadable, on the record of the call.  *)
(***************************************************************************)
\* The call reached ensureFile.
EnsureCalled == lastNew.called /\ lastNew.ensure.log # <<>>

\* The working file the call names, and whether it exists.
WorkFile == Join(LocalWorkingDir, lastNew.filename)

Has(log, op) == \E k \in DOMAIN log : log[k] = op

\* clean ran and succeeded in the call.
CleanSucceeded ==
    /\ EnsureCalled
    /\ ~lastNew.ensure.cleaned.nil
    /\ lastNew.ensure.cleaned.err = NoErr

\* C1: when the CAS has nothing at the path of the expected identifier, the
\* working file opens and clean succeeds, ensureFile returns no error if and
\* only if the OID clean computed (the OID of the file's content) equals the
\* expected identifier, the base name of the CAS path; otherwise it returns
\* an integrity mismatch naming the expected identifier and the path.
C1_ReconcileIffOidMatches ==
    (~lastNew.had /\ CleanSucceeded) =>
        LET expected == Base(LocalMediaPath(lastNew.oid))
            e == lastNew.ensure
        IN  /\ expected = lastNew.oid
            /\ e.cleaned.Oid = ContentOid(worktree[WorkFile])
            /\ (e.err = NoErr) <=> (e.cleaned.Oid = expected)
            /\ e.err # NoErr =>
                  /\ e.err.kind = "IntegrityMismatch"
                  /\ e.err.expectedOid = expected
                  /\ e.err.smudgePath = lastNew.filename

C1_Witness ==
    /\ ~lastNew.had /\ CleanSucceeded
    /\ lastNew.ensure.err.kind = "IntegrityMismatch"
    /\ lastNew.ret.nil

\* C2: when the CAS already has content at the path of the expected
\* identifier, ensureFile returns no error whatever the working file is
\* (missing or of another content), and it only stats the CAS path: it does
\* not open the working file, does not run clean, and creates and tears
\* down no staging resource.
C2_AlreadyStoredSucceedsAtOnce ==
    (EnsureCalled /\ lastNew.had) =>
        /\ lastNew.ensure.err = NoErr
        /\ lastNew.ensure.log = <<"stat">>
        /\ lastNew.ensure.cleaned.nil
        /\ staging = {}
        /\ ~lastNew.ret.nil

C2_Witness ==
    /\ EnsureCalled /\ lastNew.had
    /\ WorkFile \in DOMAIN worktree
    /\ ContentOid(worktree[WorkFile]) # lastNew.oid
    /\ lastNew.ensure.err = NoErr

\* C3: every ensureFile that runs clean tears down the staging resource
\* clean returned before it returns, whether clean failed, the OID
\* mismatched or it matched: no staging resource is live afterwards.
C3_StagingAlwaysTornDown ==
    /\ staging = {}
    /\ (EnsureCalled /\ ~lastNew.ensure.cleaned.nil) =>
          \E k \in DOMAIN lastNew.ensure.log :
             /\ lastNew.ensure.log[k] = "clean"
             /\ k < Len(lastNew.ensure.log)
             /\ lastNew.ensure.log[k + 1] = "teardown"

C3_Witness ==
    /\ EnsureCalled
    /\ ~lastNew.ensure.cleaned.nil
    /\ lastNew.ensure.cleaned.err # NoErr
    /\ Has(lastNew.ensure.log, "teardown")
    /\ staging = {}

\* NewUploadable returns the error of a failed ensureFile, and no Uploadable.
ReconcileErrorSurfaced ==
    (lastNew.called /\ lastNew.ensure.err # NoErr) =>
        /\ lastNew.ret.nil
        /\ lastNew.err = lastNew.ensure.err

\* C4 as stated: a failed reconciliation is returned by NewUploadable with
\* no Transferable, so that no Uploadable exists whose working file's
\* content hashes to another OID than its own.
C4_Original ==
    /\ ReconcileErrorSurfaced
    /\ (lastNew.called /\ ~lastNew.ret.nil /\ Len(lastNew.filename) > 0
          /\ WorkFile \in DOMAIN worktree) =>
            ContentOid(worktree[WorkFile]) = Oid(lastNew.ret)

\* C4, amended: a failed reconciliation is returned by NewUploadable with no
\* Transferable; an Uploadable built for a file name when the CAS lacked the
\* object is one whose working file exists and hashes to its OID.  (When the
\* CAS already holds the object the working file is not looked at.)
C4_MismatchSurfacedAtConstruction ==
    /\ ReconcileErrorSurfaced
    /\ (lastNew.called /\ ~lastNew.ret.nil /\ Len(lastNew.filename) > 0
          /\ ~lastNew.had) =>
            /\ WorkFile \in DOMAIN worktree
            /\ ContentOid(worktree[WorkFile]) = Oid(lastNew.ret)

C4_Witness ==
    /\ lastNew.called
    /\ lastNew.ensure.err.kind = "IntegrityMismatch"
    /\ lastNew.ret.nil
    /\ lastNew.err = lastNew.ensure.err

\* C5: with an empty file name NewUploadable opens no working file and runs
\* no clean, and returns a Transferable if and only if LocalMediaPath(oid)
\* resolves and the CAS holds an entry there; with a file name whose content
\* hashes to oid, cleaned without I/O failure into a CAS that lacked the
\* object, it returns a Transferable whose Size() is the size of the CAS
\* entry.
C5_ReconcilesOnlyWithFilename ==
    lastNew.called =>
        /\ Len(lastNew.filename) = 0 =>
              /\ lastNew.ensure.log = <<>>
              /\ ~lastNew.ret.nil <=> (lastNew.pathOk /\ lastNew.had)
        /\ (Len(lastNew.filename) > 0 /\ ~lastNew.had /\ CleanSucceeded
              /\ ContentOid(worktree[WorkFile]) = lastNew.oid) =>
              /\ ~lastNew.ret.nil
              /\ LocalMediaPath(lastNew.oid) \in DOMAIN media
              /\ Size(lastNew.ret) = Len(media[LocalMediaPath(lastNew.oid)])
              /\ Size(lastNew.ret) = Len(worktree[WorkFile])
        /\ ~lastNew.ret.nil =>
              Size(lastNew.ret) = Len(media[LocalMediaPath(lastNew.oid)])

C5_Witness ==
    /\ lastNew.called
    /\ Len(lastNew.filename) > 0 /\ ~lastNew.had /\ CleanSucceeded
    /\ ~lastNew.ret.nil
    /\ Size(lastNew.ret) = Len(worktree[WorkFile])

(***************************************************************************)
(* Properties of the Uploadable and of Transfer.                           *)
(***************************************************************************)
\* C6 as stated: over every sequence of Check, SetObject, Transfer and
\* accessor calls, Oid() stays the OID given at construction, and the
\* ObjectResource changes only once, from nil, and only after a Check
\* granted an object: it is never replaced or reset afterwards.
C6_Claim ==
    [][\A i \in DOMAIN uploadables :
          /\ Oid(uploadables'[i]) = Oid(uploadables[i])
          /\ Object(uploadables'[i]) # Object(uploadables[i]) =>
                /\ Object(uploadables[i]).nil
                /\ authorized[i]]_vars

\* C7: during one Transfer the sink is called after each chunk read with
\* (the ObjectResource's size, the bytes read so far, the chunk's size); the
\* bytes-so-far of successive calls never decrease and never exceed the
\* bytes read from the CAS file.
C7_ProgressMonotone ==
    \A i \in DOMAIN xfer :
        LET x == xfer[i]
            c == x.calls
        IN  /\ \A k \in DOMAIN c :
                  /\ c[k][1] = x.obj.Size
                  /\ c[k][3] >= 1
                  /\ c[k][2] = (IF k = 1 THEN 0 ELSE c[k - 1][2]) + c[k][3]
                  /\ k > 1 => c[k - 1][2] <= c[k][2]
                  /\ c[k][2] <= Len(x.sent)
            /\ c # <<>> => c[Len(c)][2] = Len(x.sent)
            /\ c = <<>> => x.sent = <<>>
            /\ x.sent # <<>> => x.sent = SubSeq(media[x.path], 1, Len(x.sent))

C7_Witness ==
    \E i \in DOMAIN xfer :
        /\ Len(xfer[i].calls) >= 2
        /\ xfer[i].calls[2][2] > xfer[i].calls[1][2]
        /\ xfer[i].TotalSize # Len(media[xfer[i].path])

\* C9: whatever the sink answers, wcb reports nil to the reader: a Transfer
\* ends only with a panic on a nil object, a path or open error, or the
\* result of api.UploadObject, never with an error of the sink, and a sink
\* that answered an error does not stop the reading.
C9_SinkCannotFailTransfer ==
    \A i \in DOMAIN xfer :
        LET x == xfer[i]
        IN  /\ x.result # "ReadErr"
            /\ (x.pc = "done" /\ x.uploadCalled) => x.result \in UploadOutcomes
            /\ (x.pc = "done" /\ ~x.uploadCalled) =>
                  x.result \in {"panic", "PathErr", "OpenErr"}
            /\ (x.sinkErr /\ x.result = "none") => x.pc = "uploading"

C9_Witness ==
    \E i \in DOMAIN xfer :
        /\ xfer[i].pc = "done"
        /\ xfer[i].result = "ok"
        /\ xfer[i].sinkErr
        /\ Len(xfer[i].calls) >= 2
        /\ xfer[i].sent = media[xfer[i].path]

\* C10: Transfer opens the CAS path of the ObjectResource's Oid and reports
\* the ObjectResource's Size as the total, not the Uploadable's own; the
\* file streamed is the CAS entry of Oid() exactly when the ObjectResource
\* carries that OID; when the file cannot be opened Transfer returns an
\* error and api.UploadObject is not called.
C10_TransferReadsAuthorizedObject ==
    \A i \in DOMAIN xfer :
        LET x == xfer[i]
            u == uploadables[i]
        IN  (x.pc # "idle" /\ x.result \notin {"panic", "PathErr"}) =>
              /\ x.obj = Object(u)
              /\ x.path = LocalMediaPath(x.obj.Oid)
              /\ (x.path = u.OidPath) <=> (x.obj.Oid = Oid(u))
              /\ x.uploadCalled =>
                    /\ x.TotalSize = x.obj.Size
                    /\ x.path \in DOMAIN media
                    /\ x.sent = SubSeq(media[LocalMediaPath(x.obj.Oid)], 1, Len(x.sent))
              /\ x.path \notin DOMAIN media =>
                    /\ x.result = "OpenErr"
                    /\ ~x.uploadCalled
                    /\ x.calls = <<>>

C10_Witness ==
    \E i \in DOMAIN xfer :
        /\ xfer[i].pc = "uploading"
        /\ xfer[i].obj.Oid # Oid(uploadables[i])
        /\ xfer[i].sent # <<>>
        /\ xfer[i].TotalSize # Size(uploadables[i])

\* C8: under the queue a Transfer starts only when the batch has been
\* authorized and the ObjectResource of its Uploadable has been set from a
\* granted authorization: Transfer never runs on a nil object.
C8_AuthorizationBeforeTransfer ==
    \A i \in DOMAIN xfer :
        xfer[i].pc # "idle" =>
            /\ q.phase \in {"Running", "Draining"}
            /\ authorized[i]
            /\ ~Object(uploadables[i]).nil
            /\ xfer[i].obj = Object(uploadables[i])
            /\ xfer[i].result # "panic"

C8_Witness ==
    /\ q.phase = "Running"
    /\ q.pending # <<>>
    /\ \E i \in q.inflight : xfer[i].pc = "uploading" /\ xfer[i].sent # <<>>

====
